---- MODULE Spec2Model ----
(***************************************************************************)
(* State-machine model of the tRPC router of src/src/trpc/index.ts:        *)
(* authCallback, getUserFiles, deleteFile, getFile, getFileUploadStatus,   *)
(* getFileMessages and createStripeSession, over the User / File / Message *)
(* tables, the upload storage and the payment provider.                    *)
(*                                                                         *)
(* Encodings.  A nullable row (the result of findUnique) is a set holding  *)
(* at most one row, {} being null.  A message id of 0 is the absent        *)
(* (null / undefined / empty) cursor.  A limit is a number with at most    *)
(* one binary digit after the point, [whole |-> w, half |-> h] standing    *)
(* for w + 0.5 when h and for w otherwise: the input schema asks for a     *)
(* number, not for an integer.  A handler is split into one action per     *)
(* await: the database and provider calls of other requests may run        *)
(* between two awaits of one request.                                      *)
(***************************************************************************)
EXTENDS Integers, Sequences, FiniteSets, TLC

\* ---------------------------------------------------------------- bounds
MaxFiles == 1
MaxMsgs == 3
MaxLimit == 2
MaxSessions == 2

UserIds == {"u1", "u2"}
Procs == {"p1", "p2"}

\* limit: z.number().min(1).max(100).nullish()
MinLimit == 1
MaxLimitAllowed == 100
\* the number w, and the number w + 0.5
Whole(w) == [whole |-> w, half |-> FALSE]
AndAHalf(w) == [whole |-> w, half |-> TRUE]
\* a nullish limit (zod admits no number below 1, so 0 is free to stand for it)
NullLimit == Whole(0)
\* a nullish cursor; `cursor ? ... : undefined` treats every falsy cursor alike
NoCursor == 0
\* @/config/infinite-query
INFINITE_QUERY_LIMIT == 10

VARIABLES
    users,          \* User table: sequence of rows [id, email, stripeCustomerId]
    files,          \* File table: set of rows [id, key, userId, uploadStatus]
    messages,       \* Message table: set of rows [id, fileId, userId, createdAt]
    storage,        \* keys of the objects held by the upload storage
    utCalls,        \* per key: the number of utapi.deleteFiles calls made for it
    stripeCalls,    \* sequence of sessions created at the payment provider
    call,           \* per request slot: the handler in flight and its locals
    last,           \* the response most recently sent to a caller
    nextFileId,     \* id the upload collaborator gives the next File row
    nextMsgId,      \* id the chat collaborator gives the next Message row
    pg              \* the client that follows nextCursor page by page

vars == <<users, files, messages, storage, utCalls, stripeCalls, call, last,
          nextFileId, nextMsgId, pg>>

Idle == [op |-> "idle"]
NoResponse == [op |-> "none"]
PgOff == [phase |-> "off"]

KeyOf(id) == <<"key", id>>
\* ids and keys a caller may name: those of the Files and one that names none
FileIds == 1..(MaxFiles + 1)
Keys == {KeyOf(id) : id \in FileIds}

\* ------------------------------------------------------------ File table
\* db.file.findUnique({ where: { id, userId } })
FileFindUniqueByIdIgnoringOwner(fs, id, userId) == {f \in fs : f.id = id}
FileFindUniqueById(fs, id, userId) ==
    {f \in fs : f.id = id /\ f.userId = userId}

\* db.file.findUnique({ where: { key, userId } })
FileFindUniqueByKeyIgnoringOwner(fs, key, userId) == {f \in fs : f.key = key}
FileFindUniqueByKey(fs, key, userId) ==
    {f \in fs : f.key = key /\ f.userId = userId}

\* db.file.delete({ where: { id, userId } }): the table after the delete
FileDeleteKeepsRow(fs, id, userId) == fs
FileDelete(fs, id, userId) == fs \ FileFindUniqueById(fs, id, userId)

\* db.file.findMany({ where: { userId }, include: { _count: { messages } } })
FileFindManyWithCount(fs, ms, userId) ==
    {[file |-> f, messages |-> Cardinality({m \in ms : m.fileId = f.id})] :
        f \in {g \in fs : g.userId = userId}}

TRPCError(code) == [code |-> code]
Ok(data) == [code |-> "OK", data |-> data]


\* ------------------------------------------------------------------ Init
InitCommon ==
    /\ messages = {}
    /\ utCalls = [k \in Keys |-> 0]
    /\ stripeCalls = <<>>
    /\ call = [p \in Procs |-> Idle]
    /\ last = NoResponse
    /\ nextMsgId = 1
    /\ pg = PgOff

Init ==
    /\ InitCommon
    /\ users = <<>>
    /\ files = {}
    /\ storage = {}
    /\ nextFileId = 1

FileRow(id, u, st) == [id |-> id, key |-> KeyOf(id), userId |-> u, uploadStatus |-> st]

\* the state after each user has uploaded one file
InitTwoFiles ==
    /\ InitCommon
    /\ users = <<>>
    /\ files = {FileRow(1, "u1", "SUCCESS"), FileRow(2, "u2", "SUCCESS")}
    /\ storage = {KeyOf(1), KeyOf(2)}
    /\ nextFileId = 3

\* the ids a caller may name there: those of the two Files and one that names none
TwoFilesIds == {1, 2, 3}

\* ------------------------------------------------- upload collaborator
\* The upload route stores the object and then creates the File row.
UploadComplete(u) ==
    /\ nextFileId <= MaxFiles
    /\ files' = files \cup {FileRow(nextFileId, u, "PROCESSING")}
    /\ storage' = storage \cup {KeyOf(nextFileId)}
    /\ nextFileId' = nextFileId + 1
    /\ UNCHANGED <<users, messages, utCalls, stripeCalls, call, last, nextMsgId, pg>>

\* The upload route records the outcome of indexing the file.
UploadSetStatus(f, s) ==
    /\ f \in files
    /\ f.uploadStatus = "PROCESSING"
    /\ files' = (files \ {f}) \cup {[f EXCEPT !.uploadStatus = s]}
    /\ UNCHANGED <<users, messages, storage, utCalls, stripeCalls, call, last,
                   nextFileId, nextMsgId, pg>>

\* ------------------------------------------------------------ getUserFiles
getUserFiles(u) ==
    /\ last' = [op |-> "getUserFiles", ctx |-> u,
                res |-> Ok(FileFindManyWithCount(files, messages, u))]
    /\ UNCHANGED <<users, files, messages, storage, utCalls, stripeCalls, call,
                   nextFileId, nextMsgId, pg>>

\* -------------------------------------------------------------- deleteFile
\* const file = await db.file.findUnique(...); if (!file) throw NOT_FOUND
deleteFile_findUnique(p, u, id) ==
    /\ call[p] = Idle
    /\ LET file == FileFindUniqueById(files, id, u) IN
       IF file = {}
       THEN /\ last' = [op |-> "deleteFile", ctx |-> u, inp |-> id,
                        res |-> TRPCError("NOT_FOUND")]
            /\ call' = call
       ELSE /\ call' = [call EXCEPT ![p] = [op |-> "deleteFile", pc |-> "delete",
                                           ctx |-> u, inp |-> id, file |-> file]]
            /\ last' = last
    /\ UNCHANGED <<users, files, messages, storage, utCalls, stripeCalls,
                   nextFileId, nextMsgId, pg>>

\* await db.file.delete(...): rejects when the row is no longer there
deleteFile_delete(p) ==
    /\ call[p].op = "deleteFile"
    /\ call[p].pc = "delete"
    /\ IF FileFindUniqueById(files, call[p].inp, call[p].ctx) = {}
       THEN /\ last' = [op |-> "deleteFile", ctx |-> call[p].ctx, inp |-> call[p].inp,
                        res |-> [code |-> "DB_ERROR"]]
            /\ call' = [call EXCEPT ![p] = Idle]
            /\ files' = files
       ELSE /\ files' = FileDelete(files, call[p].inp, call[p].ctx)
            /\ call' = [call EXCEPT ![p].pc = "utapi"]
            /\ last' = last
    /\ UNCHANGED <<users, messages, storage, utCalls, stripeCalls,
                   nextFileId, nextMsgId, pg>>

\* await utapi.deleteFiles(file.key); return file
\* outcome: "deleted" (object removed), "kept" (the call resolves without
\* removing the object), "rejected" (the call throws)
deleteFile_utapi(p, outcome) ==
    /\ call[p].op = "deleteFile"
    /\ call[p].pc = "utapi"
    /\ LET file == CHOOSE f \in call[p].file : TRUE IN
       /\ utCalls' = [utCalls EXCEPT ![file.key] = @ + 1]
       /\ storage' = IF outcome = "deleted" THEN storage \ {file.key} ELSE storage
       /\ last' = [op |-> "deleteFile", ctx |-> call[p].ctx, inp |-> call[p].inp,
                   res |-> IF outcome = "rejected"
                           THEN [code |-> "STORAGE_ERROR"] ELSE Ok(file)]
    /\ call' = [call EXCEPT ![p] = Idle]
    /\ UNCHANGED <<users, files, messages, stripeCalls, nextFileId, nextMsgId, pg>>

\* ----------------------------------------------------------------- getFile
getFile(u, key) ==
    /\ LET file == FileFindUniqueByKey(files, key, u) IN
       last' = [op |-> "getFile", ctx |-> u, inp |-> key,
                res |-> IF file = {} THEN TRPCError("NOT_FOUND")
                        ELSE Ok(CHOOSE f \in file : TRUE)]
    /\ UNCHANGED <<users, files, messages, storage, utCalls, stripeCalls, call,
                   nextFileId, nextMsgId, pg>>

\* ----------------------------------------------------- getFileUploadStatus
getFileUploadStatus(u, fileId) ==
    /\ LET file == FileFindUniqueById(files, fileId, u) IN
       last' = [op |-> "getFileUploadStatus", ctx |-> u, inp |-> fileId,
                res |-> IF file = {} THEN [status |-> "PENDING"]
                        ELSE [status |-> (CHOOSE f \in file : TRUE).uploadStatus]]
    /\ UNCHANGED <<users, files, messages, storage, utCalls, stripeCalls, call,
                   nextFileId, nextMsgId, pg>>

\* ------------------------------------------------------- chat collaborator
MaxOf(S) == CHOOSE x \in S : \A y \in S : y <= x

\* The chat route stores a Message for a File of its owner, stamped now();
\* two inserts may fall on the same timestamp.
InsertMessage(f, ts) ==
    /\ f \in files
    /\ nextMsgId <= MaxMsgs
    /\ ts \in (IF messages = {} THEN {1}
               ELSE LET t == MaxOf({m.createdAt : m \in messages}) IN {t, t + 1})
    /\ messages' = messages \cup {[id |-> nextMsgId, fileId |-> f.id,
                                   userId |-> f.userId, createdAt |-> ts]}
    /\ nextMsgId' = nextMsgId + 1
    /\ UNCHANGED <<users, files, storage, utCalls, stripeCalls, call, last,
                   nextFileId, pg>>

\* --------------------------------------------------------- getFileMessages
\* select: { id, isUserMessage, createdAt, text }
Select(m) == [id |-> m.id, createdAt |-> m.createdAt]

\* orderBy: { createdAt: "desc" }: every enumeration of S the database may
\* produce; rows of equal createdAt come in any order
OrderByCreatedAtDesc(S) ==
    {s \in [1..Cardinality(S) -> S] :
        /\ \A i, j \in 1..Cardinality(S) : i # j => s[i] # s[j]
        /\ \A i, j \in 1..Cardinality(S) : i < j => s[i].createdAt >= s[j].createdAt}

FirstN(s, n) == IF Len(s) <= n THEN s ELSE SubSeq(s, 1, n)

\* take: limit + 1
TakeLimit(limit) == limit
Take(limit) == [whole |-> limit.whole + 1, half |-> limit.half]

\* findMany is given a take that is no integer: the query either is rejected
\* or counts the whole rows the number covers
TakeIsFractional(take) == take.half

\* db.message.findMany({ take, where: { fileId, userId }, orderBy, cursor, select }):
\* the set of results the query may return.  With a cursor the result starts AT
\* the row the cursor names (no skip is given); a cursor naming no row gives
\* no rows.  At most take rows are returned.
MessageFindManySkipCursor(ms, fileId, userId, cursor, take) ==
    LET matching == {m \in ms : m.fileId = fileId /\ m.userId = userId}
        at == {m \in ms : m.id = cursor}
        from == IF cursor = NoCursor THEN matching
                ELSE {m \in matching : \E c \in at : m.createdAt < c.createdAt}
    IN {[i \in 1..Len(FirstN(s, take.whole)) |-> Select(s[i])] :
           s \in OrderByCreatedAtDesc(from)}
MessageFindMany(ms, fileId, userId, cursor, take) ==
    LET matching == {m \in ms : m.fileId = fileId /\ m.userId = userId}
        at == {m \in ms : m.id = cursor}
        from == IF cursor = NoCursor THEN matching
                ELSE {m \in matching : \E c \in at : m.createdAt <= c.createdAt}
    IN {[i \in 1..Len(FirstN(s, take.whole)) |-> Select(s[i])] :
           s \in OrderByCreatedAtDesc(from)}

\* const limit = input.limit ?? INFINITE_QUERY_LIMIT
EffectiveLimit(limit) ==
    IF limit = NullLimit THEN Whole(INFINITE_QUERY_LIMIT) ELSE limit

\* messages.length > limit, for the integer n and the number limit
Exceeds(n, limit) == n > limit.whole

\* if (messages.length > limit) { nextItem = messages.pop(); nextCursor = nextItem?.id }
PageCursorIsLastKept(rows, limit) ==
    IF Exceeds(Len(rows), limit)
    THEN [messages |-> SubSeq(rows, 1, Len(rows) - 1),
          nextCursor |-> rows[Len(rows) - 1].id]
    ELSE [messages |-> rows, nextCursor |-> NoCursor]
Page(rows, limit) ==
    IF Exceeds(Len(rows), limit)
    THEN [messages |-> SubSeq(rows, 1, Len(rows) - 1), nextCursor |-> rows[Len(rows)].id]
    ELSE [messages |-> rows, nextCursor |-> NoCursor]

\* the input schema of getFileMessages
ValidInput(limit) ==
    \/ limit = NullLimit
    \/ /\ MinLimit <= limit.whole
       /\ \/ limit.whole < MaxLimitAllowed
          \/ limit.whole = MaxLimitAllowed /\ ~limit.half

\* The paging client: it keeps the pages received and asks for the next one
\* with cursor = the nextCursor of the page before.
PgDeliver(client, res) ==
    IF client # "pg" THEN pg
    ELSE IF res.code # "OK" THEN [pg EXCEPT !.phase = "failed"]
    ELSE [pg EXCEPT !.acc = pg.acc \o res.data.messages,
                    !.cursor = res.data.nextCursor,
                    !.phase = IF res.data.nextCursor = NoCursor
                              THEN "complete" ELSE "ready"]

\* const file = await db.file.findUnique(...); if (!file) throw NOT_FOUND
getFileMessages_findUnique(p, u, fileId, limit, cursor, client) ==
    /\ call[p] = Idle
    /\ ValidInput(limit)
    /\ LET file == FileFindUniqueById(files, fileId, u)
           inp == [fileId |-> fileId, limit |-> limit, cursor |-> cursor]
       IN IF file = {}
          THEN /\ last' = [op |-> "getFileMessages", ctx |-> u, inp |-> inp,
                           res |-> TRPCError("NOT_FOUND")]
               /\ pg' = PgDeliver(client, TRPCError("NOT_FOUND"))
               /\ call' = call
          ELSE /\ call' = [call EXCEPT ![p] =
                              [op |-> "getFileMessages", pc |-> "findMany", ctx |-> u,
                               inp |-> inp, client |-> client]]
               /\ pg' = IF client = "pg" THEN [pg EXCEPT !.phase = "waiting"] ELSE pg
               /\ last' = last
    /\ UNCHANGED <<users, files, messages, storage, utCalls, stripeCalls,
                   nextFileId, nextMsgId>>

\* const messages = await db.message.findMany(...); pop; return
getFileMessages_findMany(p) ==
    /\ call[p].op = "getFileMessages"
    /\ call[p].pc = "findMany"
    /\ LET inp == call[p].inp
           limit == EffectiveLimit(inp.limit)
       IN \/ \E rows \in MessageFindMany(messages, inp.fileId, call[p].ctx,
                                         inp.cursor, Take(limit)) :
               /\ last' = [op |-> "getFileMessages", ctx |-> call[p].ctx, inp |-> inp,
                           res |-> Ok(Page(rows, limit))]
               /\ pg' = PgDeliver(call[p].client, Ok(Page(rows, limit)))
          \/ /\ TakeIsFractional(Take(limit))
             /\ last' = [op |-> "getFileMessages", ctx |-> call[p].ctx, inp |-> inp,
                         res |-> [code |-> "DB_ERROR"]]
             /\ pg' = PgDeliver(call[p].client, [code |-> "DB_ERROR"])
    /\ call' = [call EXCEPT ![p] = Idle]
    /\ UNCHANGED <<users, files, messages, storage, utCalls, stripeCalls,
                   nextFileId, nextMsgId>>

\* the client opens the message list of a file
PgStart(u, fileId, limit) ==
    /\ pg.phase = "off"
    /\ pg' = [phase |-> "ready", ctx |-> u, fileId |-> fileId, limit |-> limit,
              cursor |-> NoCursor, acc |-> <<>>, start |-> nextMsgId]
    /\ UNCHANGED <<users, files, messages, storage, utCalls, stripeCalls, call, last,
                   nextFileId, nextMsgId>>

\* the client fetches the next page
\* (with equal timestamps a page may repeat rows without end: the client is
\* followed until it holds more rows than there are messages)
PgFetch(p) ==
    /\ pg.phase = "ready"
    /\ Len(pg.acc) <= MaxMsgs
    /\ getFileMessages_findUnique(p, pg.ctx, pg.fileId, pg.limit, pg.cursor, "pg")

\* null, the integers and the halves between them
LimitInputs ==
    {NullLimit} \cup {Whole(w) : w \in MinLimit..MaxLimit}
                \cup {AndAHalf(w) : w \in MinLimit..MaxLimit}
CursorInputs == {NoCursor} \cup (1..(MaxMsgs + 1))

\* the caller reads the response before it asks again
Consume ==
    /\ last # NoResponse
    /\ last' = NoResponse
    /\ UNCHANGED <<users, files, messages, storage, utCalls, stripeCalls, call,
                   nextFileId, nextMsgId, pg>>

NextMessages ==
    \/ \E f \in files : \E ts \in 1..(MaxMsgs + 1) : InsertMessage(f, ts)
    \/ \E u \in UserIds, id \in TwoFilesIds, l \in LimitInputs, c \in CursorInputs :
          last = NoResponse /\ getFileMessages_findUnique("p1", u, id, l, c, "any")
    \/ getFileMessages_findMany("p1")
    \/ \E u \in UserIds : last = NoResponse /\ getUserFiles(u)
    \/ Consume

SpecMessages == InitTwoFiles /\ [][NextMessages]_vars

NextPaging ==
    \/ \E f \in files : \E ts \in 1..(MaxMsgs + 1) : InsertMessage(f, ts)
    \/ \E u \in UserIds, id \in TwoFilesIds, l \in LimitInputs : PgStart(u, id, l)
    \/ PgFetch("p1")
    \/ getFileMessages_findMany("p1")

SpecPaging == InitTwoFiles /\ [][NextPaging]_vars


\* ------------------------------------------------------------- User table
NoCustomer == <<>>
CustomerOf(id) == <<"cus", id>>
EmailOf(id) == <<"email", id>>
UserRow(id, email) == [id |-> id, email |-> email, stripeCustomerId |-> NoCustomer]

\* db.user.findUnique({ where: { id } })
UserFindUnique(us, id) == {us[i] : i \in {j \in DOMAIN us : us[j].id = id}}

\* db.user.create({ data }) is rejected when a row of that id exists: id is
\* the unique key findUnique looks rows up by
UserCreateNeverRejected(us, row) == FALSE
UserCreateRejected(us, row) == \E i \in DOMAIN us : us[i].id = row.id

\* the payment webhook records the customer id of a user who has paid
WebhookSetCustomer(i) ==
    /\ i \in DOMAIN users
    /\ users[i].stripeCustomerId = NoCustomer
    /\ users' = [users EXCEPT ![i].stripeCustomerId = CustomerOf(users[i].id)]
    /\ UNCHANGED <<files, messages, storage, utCalls, stripeCalls, call, last,
                   nextFileId, nextMsgId, pg>>

\* ------------------------------------------------------------ authCallback
\* what getUser() may resolve to: no user, a user without an email, a user
NoUser == [present |-> FALSE, id |-> "", email |-> <<>>]
KindeUsers ==
    {NoUser, [present |-> TRUE, id |-> "u1", email |-> <<>>]}
        \cup {[present |-> TRUE, id |-> u, email |-> EmailOf(u)] : u \in UserIds}

\* if (!user || !user.id || !user.email)
NotSignedIn(user) == ~user.present \/ user.id = "" \/ user.email = <<>>

\* const user = await getUser(); if (!user || !user.id || !user.email) throw
authCallback_getUser(p, user) ==
    /\ call[p] = Idle
    /\ IF NotSignedIn(user)
       THEN /\ last' = [op |-> "authCallback", ctx |-> user.id,
                        res |-> TRPCError("UNAUTHORIZED")]
            /\ call' = call
       ELSE /\ call' = [call EXCEPT ![p] = [op |-> "authCallback", pc |-> "findUnique",
                                           user |-> user]]
            /\ last' = last
    /\ UNCHANGED <<users, files, messages, storage, utCalls, stripeCalls,
                   nextFileId, nextMsgId, pg>>

\* const dbUser = await db.user.findUnique(...) and, when the row is there,
\* return { success: true }
authCallback_findUnique(p) ==
    /\ call[p].op = "authCallback"
    /\ call[p].pc = "findUnique"
    /\ IF UserFindUnique(users, call[p].user.id) # {}
       THEN /\ last' = [op |-> "authCallback", ctx |-> call[p].user.id,
                        res |-> Ok([success |-> TRUE])]
            /\ call' = [call EXCEPT ![p] = Idle]
       ELSE /\ call' = [call EXCEPT ![p].pc = "create"]
            /\ last' = last
    /\ UNCHANGED <<users, files, messages, storage, utCalls, stripeCalls,
                   nextFileId, nextMsgId, pg>>

\* await db.user.create({ data: { id, email } }); return { success: true }
authCallback_create(p) ==
    /\ call[p].op = "authCallback"
    /\ call[p].pc = "create"
    /\ LET user == call[p].user
           row == UserRow(user.id, user.email)
       IN IF UserCreateRejected(users, row)
          THEN /\ users' = users
               /\ last' = [op |-> "authCallback", ctx |-> user.id,
                           res |-> [code |-> "DB_ERROR"]]
          ELSE /\ users' = Append(users, row)
               /\ last' = [op |-> "authCallback", ctx |-> user.id,
                           res |-> Ok([success |-> TRUE])]
    /\ call' = [call EXCEPT ![p] = Idle]
    /\ UNCHANGED <<files, messages, storage, utCalls, stripeCalls,
                   nextFileId, nextMsgId, pg>>

NextAuth ==
    \/ \E p \in Procs, user \in KindeUsers : authCallback_getUser(p, user)
    \/ \E p \in Procs : authCallback_findUnique(p)
    \/ \E p \in Procs : authCallback_create(p)
    \/ \E i \in DOMAIN users : WebhookSetCustomer(i)

SpecAuth == Init /\ [][NextAuth]_vars

\* ----------------------------------------------------- createStripeSession
\* catch (error) { throw new TRPCError({ code: "INTERNAL_SERVER_ERROR", message }) }
Rethrown(original, message) == [code |-> original]
Caught(original, message) == [code |-> "INTERNAL_SERVER_ERROR", message |-> message]

\* if (subscriptionPlan.isSubscribed && dbUser.stripeCustomerId) portal, else checkout
SessionKindEither(isSubscribed, customerId) ==
    IF isSubscribed \/ customerId # NoCustomer THEN "portal" ELSE "checkout"
SessionKind(isSubscribed, customerId) ==
    IF isSubscribed /\ customerId # NoCustomer THEN "portal" ELSE "checkout"

\* stripe.billingPortal.sessions.create({ customer, return_url })
PortalSession(dbUser) ==
    [kind |-> "portal", customer |-> dbUser.stripeCustomerId,
     return_url |-> "/dashboard/billing"]

\* stripe.checkout.sessions.create({ ..., customer_email, metadata: { userId } })
CheckoutSession(dbUser, userId) ==
    [kind |-> "checkout", mode |-> "subscription", plan |-> "Pro",
     customer_email |-> dbUser.email, metadata |-> [userId |-> userId],
     success_url |-> "/dashboard/billing", cancel_url |-> "/dashboard/billing"]

\* stripeSession.url
UrlOf(session) == <<"url", session>>

\* if (!userId) throw UNAUTHORIZED; dbUser = await db.user.findUnique(...) in
\* try/catch; if (!dbUser) throw UNAUTHORIZED
createStripeSession_findUnique(p, userId, outcome) ==
    /\ call[p] = Idle
    /\ Len(stripeCalls) < MaxSessions
    /\ LET dbUser == UserFindUnique(users, userId)
           respond(r) == /\ last' = [op |-> "createStripeSession", ctx |-> userId,
                                     res |-> r]
                         /\ call' = call
       IN IF userId = "" THEN respond(TRPCError("UNAUTHORIZED"))
          ELSE IF outcome = "throws"
          THEN respond(Caught("DB_ERROR", "Error finding user in database"))
          ELSE IF dbUser = {} THEN respond(TRPCError("UNAUTHORIZED"))
          ELSE /\ call' = [call EXCEPT ![p] =
                              [op |-> "createStripeSession", pc |-> "plan",
                               ctx |-> userId, dbUser |-> CHOOSE d \in dbUser : TRUE]]
               /\ last' = last
    /\ UNCHANGED <<users, files, messages, storage, utCalls, stripeCalls,
                   nextFileId, nextMsgId, pg>>

\* subscriptionPlan = await getUserSubscriptionPlan() in try/catch
createStripeSession_plan(p, outcome, isSubscribed) ==
    /\ call[p].op = "createStripeSession"
    /\ call[p].pc = "plan"
    /\ IF outcome = "throws"
       THEN /\ last' = [op |-> "createStripeSession", ctx |-> call[p].ctx,
                        res |-> Caught("PLAN_ERROR",
                                       "Error fetching user subscription plan")]
            /\ call' = [call EXCEPT ![p] = Idle]
       ELSE /\ call' = [call EXCEPT ![p] =
                            [op |-> "createStripeSession", pc |-> "stripe",
                             ctx |-> call[p].ctx, dbUser |-> call[p].dbUser,
                             isSubscribed |-> isSubscribed]]
            /\ last' = last
    /\ UNCHANGED <<users, files, messages, storage, utCalls, stripeCalls,
                   nextFileId, nextMsgId, pg>>

\* the portal or the checkout session is created, in try/catch; return { url }
createStripeSession_stripe(p, outcome) ==
    /\ call[p].op = "createStripeSession"
    /\ call[p].pc = "stripe"
    /\ LET dbUser == call[p].dbUser
           session == IF SessionKind(call[p].isSubscribed, dbUser.stripeCustomerId)
                         = "portal"
                      THEN PortalSession(dbUser)
                      ELSE CheckoutSession(dbUser, call[p].ctx)
       IN IF outcome = "throws"
          THEN /\ stripeCalls' = stripeCalls
               /\ last' = [op |-> "createStripeSession", ctx |-> call[p].ctx,
                           res |-> Caught("STRIPE_ERROR",
                                          "Failed to create Stripe session")]
          ELSE /\ stripeCalls' = Append(stripeCalls, session)
               /\ last' = [op |-> "createStripeSession", ctx |-> call[p].ctx,
                           res |-> Ok([url |-> UrlOf(session)])]
    /\ call' = [call EXCEPT ![p] = Idle]
    /\ UNCHANGED <<users, files, messages, storage, utCalls,
                   nextFileId, nextMsgId, pg>>

NextBilling ==
    \/ \E user \in KindeUsers : authCallback_getUser("p2", user)
    \/ authCallback_findUnique("p2")
    \/ authCallback_create("p2")
    \/ \E i \in DOMAIN users : WebhookSetCustomer(i)
    \/ \E u \in UserIds \cup {""}, o \in {"ok", "throws"} :
          createStripeSession_findUnique("p1", u, o)
    \/ \E o \in {"ok", "throws"}, sub \in BOOLEAN : createStripeSession_plan("p1", o, sub)
    \/ \E o \in {"ok", "throws"} : createStripeSession_stripe("p1", o)

SpecBilling == Init /\ [][NextBilling]_vars

NextFiles ==
    \/ \E u \in UserIds : UploadComplete(u)
    \/ \E f \in files, s \in {"SUCCESS", "FAILED"} : UploadSetStatus(f, s)
    \/ \E p \in Procs, u \in UserIds, id \in FileIds : deleteFile_findUnique(p, u, id)
    \/ \E p \in Procs : deleteFile_delete(p)
    \/ \E p \in Procs, o \in {"deleted", "kept", "rejected"} : deleteFile_utapi(p, o)
    \/ \E u \in UserIds, id \in FileIds : getFile(u, KeyOf(id))
    \/ \E u \in UserIds, id \in FileIds : getFileUploadStatus(u, id)
    \/ \E p \in Procs, u \in UserIds, id \in FileIds :
          getFileMessages_findUnique(p, u, id, NullLimit, NoCursor, "any")
    \/ \E p \in Procs : getFileMessages_findMany(p)

Spec == Init /\ [][NextFiles]_vars

\* ======================================================================
\* Properties of the File procedures (specification Spec)
\* ======================================================================
NotFoundResponse(op, u, inp) ==
    [op |-> op, ctx |-> u, inp |-> inp, res |-> [code |-> "NOT_FOUND"]]

\* the step sends a response of procedure op
Sends(op) == last' # last /\ last'.op = op

\* the caller u owns no File of this id: the id names a File of another user
\* or no File at all
OwnsNoFileWithId(u, id) == \A f \in files : f.id = id => f.userId # u
OwnsNoFileWithKey(u, key) == \A f \in files : f.key = key => f.userId # u

\* C1: a caller who does not own the File named (it belongs to another user, or
\* there is none) gets NOT_FOUND from getFile, deleteFile and getFileMessages
\* and status PENDING from getFileUploadStatus, the same response in both
\* cases, and the File table, the storage and the request slots are unchanged.
C1_ForeignFileIsAbsent ==
    [][ /\ Sends("getFile") =>
              \A u \in UserIds, id \in FileIds :
                  getFile(u, KeyOf(id)) /\ OwnsNoFileWithKey(u, KeyOf(id))
                      => /\ last' = NotFoundResponse("getFile", u, KeyOf(id))
                         /\ files' = files
        /\ (Sends("deleteFile") \/ call' # call) =>
              \A p \in Procs, u \in UserIds, id \in FileIds :
                  deleteFile_findUnique(p, u, id) /\ OwnsNoFileWithId(u, id)
                      => /\ last' = NotFoundResponse("deleteFile", u, id)
                         /\ files' = files /\ storage' = storage /\ call' = call
        /\ (Sends("getFileMessages") \/ call' # call) =>
              \A p \in Procs, u \in UserIds, id \in FileIds :
                  ( /\ getFileMessages_findUnique(p, u, id, NullLimit, NoCursor, "any")
                    /\ OwnsNoFileWithId(u, id) )
                      => /\ last'.op = "getFileMessages" /\ last'.ctx = u
                         /\ last'.res = [code |-> "NOT_FOUND"]
                         /\ files' = files /\ call' = call
        /\ Sends("getFileUploadStatus") =>
              \A u \in UserIds, id \in FileIds :
                  getFileUploadStatus(u, id) /\ OwnsNoFileWithId(u, id)
                      => /\ last' = [op |-> "getFileUploadStatus", ctx |-> u, inp |-> id,
                                     res |-> [status |-> "PENDING"]]
                         /\ files' = files
      ]_vars

\* C1 witness: a user was answered NOT_FOUND by getFile for the key of a File
\* that exists, belongs to another user and has been processed.
C1_Witness ==
    /\ last.op = "getFile"
    /\ last.res = [code |-> "NOT_FOUND"]
    /\ \E f \in files : /\ f.key = last.inp /\ f.userId # last.ctx
                        /\ f.uploadStatus = "SUCCESS"

\* C6: deleteFile for an id that names no File of the caller answers NOT_FOUND,
\* ends there and makes no storage call; and over any run, overlapping calls
\* included, at most one storage deletion call is ever made for a key, and only
\* for a key whose File row is gone.
C6_NoStorageCallWithoutFile ==
    /\ [][ (Sends("deleteFile") \/ call' # call) =>
            \A p \in Procs, u \in UserIds, id \in FileIds :
              deleteFile_findUnique(p, u, id) /\ OwnsNoFileWithId(u, id)
                  => /\ last' = NotFoundResponse("deleteFile", u, id)
                     /\ call'[p] = Idle
                     /\ utCalls' = utCalls ]_vars
    /\ [][ (Sends("deleteFile") \/ call' # call) =>
            \A p \in Procs :
              deleteFile_delete(p) /\ OwnsNoFileWithId(call[p].ctx, call[p].inp)
                  => call'[p] = Idle /\ utCalls' = utCalls ]_vars
    /\ [](\A k \in Keys : utCalls[k] <= 1)
    /\ [](\A k \in Keys : utCalls[k] = 1 => \A f \in files : f.key # k)

\* C6 witness: a second deleteFile for the same id by the same owner was
\* answered NOT_FOUND while the first, which deleted the row, has not yet
\* reached its storage call.
C6_Witness ==
    /\ last.op = "deleteFile"
    /\ last.res = [code |-> "NOT_FOUND"]
    /\ \E p \in Procs : /\ call[p].op = "deleteFile" /\ call[p].pc = "utapi"
                        /\ call[p].inp = last.inp /\ call[p].ctx = last.ctx
    /\ utCalls[KeyOf(last.inp)] = 0

\* C9: the storage deletion call of deleteFile is made only once the File row
\* is deleted, never when the row delete fails; no step of deleteFile brings a
\* deleted row back; so a row present with its storage object absent never
\* occurs, while a row absent with its object present does.
C9_RowDeletedBeforeStorage ==
    /\ [][ Sends("deleteFile") =>
            \A p \in Procs, o \in {"deleted", "kept", "rejected"} :
              deleteFile_utapi(p, o)
                  => /\ \A f \in files : f.id # call[p].inp
                     /\ files' = files ]_vars
    /\ [][ Sends("deleteFile") =>
            \A p \in Procs :
              deleteFile_delete(p) /\ files' = files
                  => call'[p] = Idle /\ utCalls' = utCalls /\ storage' = storage ]_vars
    /\ [][ \A id \in FileIds :
              (id < nextFileId /\ \A f \in files : f.id # id)
                  => \A f \in files' : f.id # id ]_vars
    /\ [](\A f \in files : f.key \in storage)

\* C9 witness: the storage call of a deleteFile was rejected; the row is gone
\* and the object is still stored.
C9_Witness ==
    /\ last.op = "deleteFile"
    /\ last.res = [code |-> "STORAGE_ERROR"]
    /\ \A f \in files : f.id # last.inp
    /\ KeyOf(last.inp) \in storage

\* ======================================================================
\* Properties of getFileMessages (specifications SpecMessages, SpecPaging)
\* ======================================================================
\* the messages of the file and owner from the position where the fetch
\* starts: all of them without a cursor, else those not newer than the row the
\* cursor names
FromFetchStart(ms, fileId, userId, cursor) ==
    {m \in ms : /\ m.fileId = fileId /\ m.userId = userId
                /\ \/ cursor = NoCursor
                   \/ \E c \in ms : c.id = cursor /\ m.createdAt <= c.createdAt}

\* C2: getFileMessages with an integer limit L in 1..100 (or the default)
\* returns at most L messages; nextCursor is defined exactly when more than L
\* messages of the file and owner exist from the position where the fetch
\* starts, and then exactly L messages are returned.
C2_PageSize ==
    [][ (getFileMessages_findMany("p1") /\ ~call["p1"].inp.limit.half) =>
          LET inp == call["p1"].inp
              L == IF inp.limit = NullLimit THEN INFINITE_QUERY_LIMIT
                   ELSE inp.limit.whole
              n == Cardinality(FromFetchStart(messages, inp.fileId, call["p1"].ctx,
                                              inp.cursor))
              r == last'.res.data
          IN /\ last'.res.code = "OK"
             /\ Len(r.messages) <= L
             /\ (r.nextCursor # NoCursor) <=> (n > L)
             /\ (r.nextCursor # NoCursor) => Len(r.messages) = L
             /\ (r.nextCursor = NoCursor) => Len(r.messages) = n
      ]_vars

\* C2 witness: a call with a cursor and limit L returned L messages and a
\* nextCursor.
C2_Witness ==
    /\ last.op = "getFileMessages"
    /\ last.res.code = "OK"
    /\ last.inp.cursor # NoCursor
    /\ last.inp.limit # NullLimit
    /\ ~last.inp.limit.half
    /\ last.res.data.nextCursor # NoCursor
    /\ Len(last.res.data.messages) = last.inp.limit.whole

\* the messages of File 1 of user u1, when they are exactly three with
\* distinct timestamps; Newest(k) is the k-th of them, newest first
MessagesOfFile1 == {m \in messages : m.fileId = 1 /\ m.userId = "u1"}
ThreeMessages ==
    /\ Cardinality(MessagesOfFile1) = 3
    /\ \A a, b \in MessagesOfFile1 : a # b => a.createdAt # b.createdAt
Newest(k) ==
    CHOOSE m \in MessagesOfFile1 :
        Cardinality({x \in MessagesOfFile1 : x.createdAt > m.createdAt}) = k - 1
Row(m) == [id |-> m.id, createdAt |-> m.createdAt]

\* C4 as stated: with limit 2 and three messages m1, m2, m3 (newest first), the
\* call without a cursor returns [m1, m2] and nextCursor m2, and the call with
\* cursor m2 returns [m3] and no nextCursor.
C4_AsStated ==
    [][ ( /\ getFileMessages_findMany("p1")
          /\ ThreeMessages
          /\ call["p1"].ctx = "u1"
          /\ call["p1"].inp.fileId = 1
          /\ call["p1"].inp.limit = Whole(2) )
        => /\ call["p1"].inp.cursor = NoCursor
                => last'.res.data = [messages |-> <<Row(Newest(1)), Row(Newest(2))>>,
                                     nextCursor |-> Newest(2).id]
           /\ call["p1"].inp.cursor = Newest(2).id
                => last'.res.data = [messages |-> <<Row(Newest(3))>>,
                                     nextCursor |-> NoCursor]
      ]_vars

\* C4 amended: with limit 2 and three messages m1, m2, m3 (newest first), the
\* call without a cursor returns [m1, m2] and nextCursor m3, and the call with
\* cursor m3 returns [m3] and no nextCursor.
C4_Amended ==
    [][ ( /\ getFileMessages_findMany("p1")
          /\ ThreeMessages
          /\ call["p1"].ctx = "u1"
          /\ call["p1"].inp.fileId = 1
          /\ call["p1"].inp.limit = Whole(2) )
        => /\ call["p1"].inp.cursor = NoCursor
                => last'.res.data = [messages |-> <<Row(Newest(1)), Row(Newest(2))>>,
                                     nextCursor |-> Newest(3).id]
           /\ call["p1"].inp.cursor = Newest(3).id
                => last'.res.data = [messages |-> <<Row(Newest(3))>>,
                                     nextCursor |-> NoCursor]
      ]_vars

\* C4 witness: with three messages and limit 2, the call with cursor m3 has
\* returned [m3] and no nextCursor.
C4_Witness ==
    /\ ThreeMessages
    /\ last.op = "getFileMessages"
    /\ last.ctx = "u1"
    /\ last.inp = [fileId |-> 1, limit |-> Whole(2), cursor |-> Newest(3).id]
    /\ last.res = [code |-> "OK",
                   data |-> [messages |-> <<Row(Newest(3))>>, nextCursor |-> NoCursor]]

\* the messages the paging client asks for
PgMessages == {m \in messages : m.fileId = pg.fileId /\ m.userId = pg.ctx}

\* C3: when the client has followed nextCursor from no cursor to the end, no
\* message was inserted meanwhile and the timestamps are distinct, the pages
\* put together hold every message of the caller for the file exactly once,
\* newest first.
C3_PagesCoverMessages ==
    ( /\ pg.phase = "complete"
      /\ pg.start = nextMsgId
      /\ \A a, b \in PgMessages : a # b => a.createdAt # b.createdAt )
    => /\ Len(pg.acc) = Cardinality(PgMessages)
       /\ {pg.acc[i].id : i \in 1..Len(pg.acc)} = {m.id : m \in PgMessages}
       /\ \A i, j \in 1..Len(pg.acc) : i < j => pg.acc[i].createdAt > pg.acc[j].createdAt

\* C3 witness: the client has reached the end over more than one page.
C3_Witness ==
    /\ pg.phase = "complete"
    /\ pg.start = nextMsgId
    /\ \A a, b \in PgMessages : a # b => a.createdAt # b.createdAt
    /\ Len(pg.acc) = 3
    /\ pg.limit = Whole(1)

\* ======================================================================
\* Properties of authCallback (specification SpecAuth)
\* ======================================================================
RowsOf(us, id) == {i \in DOMAIN us : us[i].id = id}
AuthStep == Sends("authCallback") \/ call' # call

\* C5: every authCallback that ran for a signed-in identity leaves exactly one
\* User row of that id, however the invocations interleave; the table never
\* holds two rows of one id; and no step of authCallback changes or removes a
\* row that is already there.
C5_OneUserRow ==
    /\ [](\A id \in UserIds : Cardinality(RowsOf(users, id)) <= 1)
    /\ []((last.op = "authCallback" /\ last.res.code # "UNAUTHORIZED")
             => Cardinality(RowsOf(users, last.ctx)) = 1)
    /\ [][ AuthStep =>
             \A p \in Procs :
                (authCallback_create(p) \/ authCallback_findUnique(p)
                   \/ \E user \in KindeUsers : authCallback_getUser(p, user))
                    => /\ Len(users') >= Len(users)
                       /\ \A i \in DOMAIN users : users'[i] = users[i] ]_vars

\* C5 witness: two invocations for one identity interleaved (the second create
\* was rejected), a third ran after them, and the one row, since given a
\* customer id, is in the table.
C5_Witness ==
    /\ last.op = "authCallback"
    /\ last.ctx = "u1"
    /\ last.res.code = "DB_ERROR"
    /\ Cardinality(RowsOf(users, "u1")) = 1
    /\ \E i \in RowsOf(users, "u1") : users[i].stripeCustomerId # NoCustomer

\* C8: when two first-time invocations for one identity both look the user up
\* before either creates it, both answer { success: true }: the create of an
\* invocation that found no row never surfaces an error.
C8_AsStated ==
    [][ Sends("authCallback") =>
          \A p \in Procs :
             authCallback_create(p) => last'.res = Ok([success |-> TRUE]) ]_vars

\* ======================================================================
\* Properties of createStripeSession (specification SpecBilling)
\* ======================================================================
\* C7: when no collaborator fails, createStripeSession creates exactly one
\* session and returns its url: a billing-portal session for the stored
\* customer id if and only if the plan says subscribed and the User row has a
\* customer id, and otherwise a checkout session whose metadata carries the
\* caller's user id.
C7_PortalOrCheckout ==
    [][ Sends("createStripeSession") =>
          \A p \in Procs :
             createStripeSession_stripe(p, "ok") =>
                LET d == call[p].dbUser
                    portal == call[p].isSubscribed /\ d.stripeCustomerId # NoCustomer
                    n == Len(stripeCalls)
                IN /\ Len(stripeCalls') = n + 1
                   /\ SubSeq(stripeCalls', 1, n) = stripeCalls
                   /\ stripeCalls'[n + 1].kind = (IF portal THEN "portal" ELSE "checkout")
                   /\ portal => stripeCalls'[n + 1].customer = d.stripeCustomerId
                   /\ ~portal => /\ stripeCalls'[n + 1].metadata = [userId |-> call[p].ctx]
                                 /\ stripeCalls'[n + 1].customer_email = d.email
                   /\ last'.res = Ok([url |-> UrlOf(stripeCalls'[n + 1])]) ]_vars

\* C7 witness: a user with a customer id got a checkout url while not
\* subscribed and a portal url while subscribed.
C7_Witness ==
    /\ Len(stripeCalls) = 2
    /\ stripeCalls[1].kind = "checkout"
    /\ stripeCalls[1].metadata.userId = "u1"
    /\ stripeCalls[2].kind = "portal"
    /\ stripeCalls[2].customer = CustomerOf("u1")
    /\ last.op = "createStripeSession"
    /\ last.res = Ok([url |-> UrlOf(stripeCalls[2])])

\* C10: createStripeSession ends in { url }, UNAUTHORIZED or
\* INTERNAL_SERVER_ERROR; a failed user lookup, plan fetch or session creation
\* ends in INTERNAL_SERVER_ERROR; a missing user id or User row ends in
\* UNAUTHORIZED at the lookup, before the plan fetch and with no session created.
C10_ErrorsNormalized ==
    /\ [](last.op = "createStripeSession"
            => \/ last.res.code \in {"UNAUTHORIZED", "INTERNAL_SERVER_ERROR"}
               \/ last.res.code = "OK" /\ DOMAIN last.res.data = {"url"})
    /\ [][ Sends("createStripeSession") =>
             \A p \in Procs :
                /\ \A u \in UserIds \cup {""} :
                      createStripeSession_findUnique(p, u, "throws") /\ u # ""
                          => last'.res.code = "INTERNAL_SERVER_ERROR"
                /\ \A sub \in BOOLEAN :
                      createStripeSession_plan(p, "throws", sub)
                          => last'.res.code = "INTERNAL_SERVER_ERROR"
                /\ createStripeSession_stripe(p, "throws")
                     => /\ last'.res.code = "INTERNAL_SERVER_ERROR"
                        /\ stripeCalls' = stripeCalls ]_vars
    /\ [][ (Sends("createStripeSession") \/ call' # call) =>
             \A p \in Procs, u \in UserIds \cup {""} :
                ( /\ createStripeSession_findUnique(p, u, "ok")
                  /\ (u = "" \/ RowsOf(users, u) = {}) )
                    => /\ last'.res.code = "UNAUTHORIZED"
                       /\ call'[p] = Idle
                       /\ stripeCalls' = stripeCalls ]_vars

\* C10 witness: the plan fetch of a signed-in user failed and the caller got
\* INTERNAL_SERVER_ERROR.
C10_Witness ==
    /\ last.op = "createStripeSession"
    /\ last.res = [code |-> "INTERNAL_SERVER_ERROR",
                   message |-> "Error fetching user subscription plan"]
    /\ RowsOf(users, last.ctx) # {}
====
